---- MODULE Spec2Model ----
(***************************************************************************)
(* Model of batchPublish.js (src/unnamed/part_000): the batch driver that  *)
(* discovers shapefiles, groups their components, zips, uploads and        *)
(* publishes them to GeoServer.                                            *)
(*                                                                         *)
(* File names are sequences of one-character strings, a path is a sequence *)
(* of names (directory components followed by the file name).              *)
(***************************************************************************)
EXTENDS Integers, Sequences, FiniteSets, TLC

----------------------------------------------------------------------------
(* Bounds of the model *)

\* largest number of files the scanned tree holds
MaxEntries == 6

----------------------------------------------------------------------------
(* Strings *)

ToLowerChar(c) ==
  CASE c = "A" -> "a"
    [] c = "B" -> "b"
    [] c = "D" -> "d"
    [] c = "F" -> "f"
    [] c = "H" -> "h"
    [] c = "P" -> "p"
    [] c = "S" -> "s"
    [] c = "X" -> "x"
    [] OTHER -> c

toLowerCase(s) == [i \in 1..Len(s) |-> ToLowerChar(s[i])]

startsWith(s, p) == Len(p) <= Len(s) /\ SubSeq(s, 1, Len(p)) = p

endsWith(s, p) == Len(p) <= Len(s) /\ SubSeq(s, Len(s) - Len(p) + 1, Len(s)) = p

\* String.prototype.slice(n) for 0 <= n
slice(s, n) == SubSeq(s, n + 1, Len(s))

SeqContains(seq, x) == \E i \in 1..Len(seq) : seq[i] = x

\* index of the last "." of s, 0 when there is none
LastDot(s) ==
  LET dots == {i \in 1..Len(s) : s[i] = "."}
  IN IF dots = {} THEN 0 ELSE CHOOSE i \in dots : \A j \in dots : j <= i

\* path.parse(p).name: the last component without its extension; a leading
\* dot does not start an extension
ParseName(p) ==
  LET base == p[Len(p)]
      d == LastDot(base)
  IN IF d <= 1 THEN base ELSE SubSeq(base, 1, d - 1)

\* path.dirname(p)
Dirname(p) == SubSeq(p, 1, Len(p) - 1)

allowedSuffixes ==
  << <<".", "s", "h", "p">>,
     <<".", "s", "h", "x">>,
     <<".", "d", "b", "f">>,
     <<".", "p", "r", "j">>,
     <<".", "c", "p", "g">>,
     <<".", "s", "b", "n">>,
     <<".", "s", "b", "x">>,
     <<".", "q", "i", "x">>,
     <<".", "q", "p", "j">>,
     <<".", "f", "i", "x">>,
     <<".", "a", "i", "h">>,
     <<".", "a", "i", "n">>,
     <<".", "s", "h", "p", ".", "x", "m", "l">>,
     <<".", "q", "m", "d">> >>

ShpExt == <<".", "s", "h", "p">>

required == << <<".", "s", "h", "p">>, <<".", "s", "h", "x">>, <<".", "d", "b", "f">> >>

----------------------------------------------------------------------------
(* The scanned directory tree: the root directory and one subdirectory.    *)
(* A listing is a sequence of entries [name, isDir], in readdir order.     *)

SubDirName == <<"d">>

RootPool ==
  << <<"a", ".", "s", "h", "p">>,
     <<"a", ".", "s", "h", "x">>,
     <<"a", ".", "d", "b", "f">>,
     <<"a", ".", "s", "h", "p", ".", "x", "m", "l">>,
     <<"a", "b", ".", "S", "H", "P">>,
     <<"A", "B", ".", "s", "h", "x">>,
     <<"a", "b", ".", "D", "b", "f">> >>

SubPool ==
  << <<"c", ".", "s", "h", "p">>,
     <<"c", ".", "s", "h", "x">>,
     <<"c", ".", "d", "b", "f">> >>

\* the subsequence of pool at the indices in keep, order kept
RECURSIVE Pick(_, _, _)
Pick(pool, keep, i) ==
  IF i > Len(pool) THEN <<>>
  ELSE (IF i \in keep THEN <<[name |-> pool[i], isDir |-> FALSE]>> ELSE <<>>)
       \o Pick(pool, keep, i + 1)

\* the trees a run may scan: listings of the root (path <<>>) and of the
\* subdirectory (path <<SubDirName>>); the subdirectory entry exists when
\* hasSub, and is listed first or last
Trees ==
  { [root |-> IF ~t.hasSub THEN Pick(RootPool, t.r, 1)
              ELSE IF t.subFirst
                   THEN <<[name |-> SubDirName, isDir |-> TRUE]>> \o Pick(RootPool, t.r, 1)
                   ELSE Pick(RootPool, t.r, 1) \o <<[name |-> SubDirName, isDir |-> TRUE]>>,
     sub  |-> IF t.hasSub THEN Pick(SubPool, t.s, 1) ELSE <<>>] :
    t \in { u \in [r : SUBSET (1..Len(RootPool)), s : SUBSET (1..Len(SubPool)),
                   hasSub : BOOLEAN, subFirst : BOOLEAN] :
              /\ Cardinality(u.r) + Cardinality(u.s) <= MaxEntries
              /\ (~u.hasSub => u.s = {} /\ ~u.subFirst)
              /\ (u.hasSub => u.s # {}) } }

\* files of the runs that vary the command line: a dataset whose stem has
\* leading, inner and trailing whitespace, and a plain one
CliPool ==
  << <<" ", "m", " ", "\t", "p", " ", ".", "s", "h", "p">>,
     <<" ", "m", " ", "\t", "p", " ", ".", "s", "h", "x">>,
     <<" ", "m", " ", "\t", "p", " ", ".", "d", "b", "f">>,
     <<"a", ".", "s", "h", "p">>,
     <<"a", ".", "s", "h", "x">>,
     <<"a", ".", "d", "b", "f">> >>

CliTrees ==
  { [root |-> Pick(CliPool, keep, 1), sub |-> <<>>] :
      keep \in {{}, {1, 2, 3}, {4, 5, 6}, {1, 2, 3, 4, 5, 6}, {1, 2}, {4}} }

\* fsp.readdir(dir, {withFileTypes: true})
Readdir(tree, dir) == IF dir = <<>> THEN tree.root ELSE tree.sub

----------------------------------------------------------------------------
(* collectShapefiles *)

\* the walk of dir from its i-th entry on: subdirectories are walked where
\* they are listed, files whose lower-cased name ends in ".shp" are kept
RECURSIVE walk(_, _, _)
walk(tree, dir, i) ==
  LET entries == Readdir(tree, dir)
  IN IF i > Len(entries) THEN <<>>
     ELSE LET entry == entries[i]
              fullPath == dir \o <<entry.name>>
          IN (IF entry.isDir THEN walk(tree, fullPath, 1)
              ELSE IF endsWith(toLowerCase(entry.name), ShpExt) THEN <<fullPath>>
              ELSE <<>>)
             \o walk(tree, dir, i + 1)

collectShapefiles(tree) == walk(tree, <<>>, 1)

----------------------------------------------------------------------------
(* gatherComponents *)

\* a path as one string, its components joined by "/"
RECURSIVE PathStr(_)
PathStr(p) ==
  IF Len(p) = 0 THEN <<>>
  ELSE IF Len(p) = 1 THEN p[1]
  ELSE p[1] \o <<"/">> \o PathStr(Tail(p))

\* Components whose test of the suffix looks at the end of the name only
Components_SuffixOnly(tree, shpPath) ==
  LET dir == Dirname(shpPath)
      baseLower == toLowerCase(ParseName(shpPath))
      Keep(entry) ==
        LET lower == toLowerCase(entry.name)
        IN /\ startsWith(lower, baseLower)
           /\ \E i \in 1..Len(allowedSuffixes) : endsWith(lower, allowedSuffixes[i])
      kept == SelectSeq(Readdir(tree, dir), Keep)
  IN [i \in 1..Len(kept) |-> dir \o <<kept[i].name>>]

\* the siblings of shpPath kept as its components, in readdir order
Components(tree, shpPath) ==
  LET dir == Dirname(shpPath)
      baseLower == toLowerCase(ParseName(shpPath))
      Keep(entry) ==
        LET lower == toLowerCase(entry.name)
            suffix == slice(lower, Len(baseLower))
        IN startsWith(lower, baseLower) /\ SeqContains(allowedSuffixes, suffix)
      kept == SelectSeq(Readdir(tree, dir), Keep)
  IN [i \in 1..Len(kept) |-> dir \o <<kept[i].name>>]

\* MissingRequired that looks for the first required extension only
MissingRequired_OnlyShp(components) ==
  {e \in {1} :
     ~\E i \in 1..Len(components) :
        endsWith(toLowerCase(PathStr(components[i])), required[e])}

\* the required extensions no component ends with, as indices of required
MissingRequired(components) ==
  {e \in 1..Len(required) :
     ~\E i \in 1..Len(components) :
        endsWith(toLowerCase(PathStr(components[i])), required[e])}

\* gatherComponents whose error names the first required extension
gatherComponents_NamesFirstRequired(tree, shpPath) ==
  LET components == Components(tree, shpPath)
      missing == MissingRequired(components)
  IN IF missing = {}
     THEN [ok |-> TRUE, components |-> components, candidates |-> components,
           ext |-> <<>>, shpPath |-> <<>>]
     ELSE [ok |-> FALSE, components |-> <<>>, candidates |-> components,
           ext |-> required[1], shpPath |-> shpPath]

\* gatherComponents(shpPath): the component list, or the error thrown for
\* the first missing required extension, which names it and shpPath;
\* candidates is the list assembled before the required check
gatherComponents(tree, shpPath) ==
  LET components == Components(tree, shpPath)
      missing == MissingRequired(components)
  IN IF missing = {}
     THEN [ok |-> TRUE, components |-> components, candidates |-> components,
           ext |-> <<>>, shpPath |-> <<>>]
     ELSE [ok |-> FALSE, components |-> <<>>, candidates |-> components,
           ext |-> required[CHOOSE e \in missing : \A f \in missing : e <= f],
           shpPath |-> shpPath]

----------------------------------------------------------------------------
(* Names *)

\* the characters \s matches and trim removes, among those of the model
IsSpace(c) == c \in {" ", "\t"}

RECURSIVE TrimStart(_)
TrimStart(s) == IF s # <<>> /\ IsSpace(Head(s)) THEN TrimStart(Tail(s)) ELSE s

RECURSIVE TrimEnd(_)
TrimEnd(s) ==
  IF s # <<>> /\ IsSpace(s[Len(s)]) THEN TrimEnd(SubSeq(s, 1, Len(s) - 1)) ELSE s

\* String.prototype.trim
trim(s) == TrimEnd(TrimStart(s))

\* s.replace(/\s+/g, '_'): every maximal run of whitespace becomes one "_"
RECURSIVE ReplaceRuns(_)
ReplaceRuns(s) ==
  IF s = <<>> THEN <<>>
  ELSE IF IsSpace(Head(s)) THEN <<"_">> \o ReplaceRuns(TrimStart(s))
  ELSE <<Head(s)>> \o ReplaceRuns(Tail(s))

\* s.replace(/\s/g, '_'): every whitespace character becomes "_"
RECURSIVE ReplaceEach(_)
ReplaceEach(s) ==
  IF s = <<>> THEN <<>>
  ELSE <<IF IsSpace(Head(s)) THEN "_" ELSE Head(s)>> \o ReplaceEach(Tail(s))

\* sanitizeName whose pattern lost its "+"
sanitizeName_EachSpace(name) == ReplaceEach(trim(name))

sanitizeName(name) == ReplaceRuns(trim(name))

\* the characters of an option value, for the values of the model
Chars(value) ==
  CASE value = "" -> <<>>
    [] value = "s_" -> <<"s", "_">>
    [] value = "l_" -> <<"l", "_">>
    [] OTHER -> <<value>>

\* const baseName = rawBaseName.trim();
\* storeName = `${options.storePrefix}${sanitizeName(baseName)}`
StoreName(opts, shpPath) == Chars(opts.storePrefix) \o sanitizeName(trim(ParseName(shpPath)))

\* layerName = `${options.layerPrefix}${sanitizeName(baseName)}`
LayerName(opts, shpPath) == Chars(opts.layerPrefix) \o sanitizeName(trim(ParseName(shpPath)))

\* nativeName: rawBaseName, the name of path.parse(shpPath)
NativeName(shpPath) == ParseName(shpPath)

----------------------------------------------------------------------------
(* parseArgs.  An unset environment variable and an absent argv value are  *)
(* the empty string: the code tests both with "!value".                    *)

OptionTokens ==
  {"--overwrite", "--directory", "--dir", "--geoserver-url", "--workspace",
   "--username", "--password", "--store-prefix", "--layer-prefix", "--bogus"}

\* arg.startsWith('--'), over the tokens of the model
StartsWithDashes(arg) == arg \in OptionTokens

DefaultOptions(env) ==
  [directory |-> "shpfiles",
   geoserverUrl |-> env.GEOSERVER_URL,
   workspace |-> env.GEOSERVER_WORKSPACE,
   username |-> env.GEOSERVER_USER,
   password |-> env.GEOSERVER_PASSWORD,
   storePrefix |-> "",
   layerPrefix |-> "",
   overwrite |-> FALSE]

\* the value switch of parseArgs
SetOption(options, arg, value) ==
  CASE arg \in {"--directory", "--dir"} -> [options EXCEPT !.directory = value]
    [] arg = "--geoserver-url" -> [options EXCEPT !.geoserverUrl = value]
    [] arg = "--workspace" -> [options EXCEPT !.workspace = value]
    [] arg = "--username" -> [options EXCEPT !.username = value]
    [] arg = "--password" -> [options EXCEPT !.password = value]
    [] arg = "--store-prefix" -> [options EXCEPT !.storePrefix = value]
    [] arg = "--layer-prefix" -> [options EXCEPT !.layerPrefix = value]

ValueOptions ==
  {"--directory", "--dir", "--geoserver-url", "--workspace", "--username",
   "--password", "--store-prefix", "--layer-prefix"}

\* the argument loop from index i on
RECURSIVE ParseLoop(_, _, _)
ParseLoop(argv, i, options) ==
  IF i > Len(argv) THEN [ok |-> TRUE, options |-> options, error |-> ""]
  ELSE LET arg == argv[i]
           value == IF i + 1 <= Len(argv) THEN argv[i + 1] ELSE ""
       IN IF ~StartsWithDashes(arg)
          THEN [ok |-> FALSE, options |-> options, error |-> "Unexpected argument"]
          ELSE IF arg = "--overwrite"
          THEN ParseLoop(argv, i + 1, [options EXCEPT !.overwrite = TRUE])
          ELSE IF value = "" \/ StartsWithDashes(value)
          THEN [ok |-> FALSE, options |-> options, error |-> "expects a value"]
          ELSE IF arg \notin ValueOptions
          THEN [ok |-> FALSE, options |-> options, error |-> "Unknown option"]
          ELSE ParseLoop(argv, i + 2, SetOption(options, arg, value))

parseArgs(argv, env) ==
  LET r == ParseLoop(argv, 1, DefaultOptions(env))
      o == r.options
  IN IF ~r.ok THEN r
     ELSE IF o.geoserverUrl = "" THEN [r EXCEPT !.ok = FALSE, !.error = "Missing GeoServer URL"]
     ELSE IF o.workspace = "" THEN [r EXCEPT !.ok = FALSE, !.error = "Missing workspace"]
     ELSE IF o.username = "" THEN [r EXCEPT !.ok = FALSE, !.error = "Missing username"]
     ELSE IF o.password = "" THEN [r EXCEPT !.ok = FALSE, !.error = "Missing password"]
     ELSE r

ArgvPool ==
  { <<>>,
    <<"--overwrite">>,
    <<"--store-prefix">>,
    <<"oops">> }

\* argument lists of the runs that vary the command line
CliArgvPool ==
  { <<>>,
    <<"--overwrite">>,
    <<"--password", "pw">>,
    <<"--store-prefix", "s_", "--layer-prefix", "l_">>,
    <<"--store-prefix">>,
    <<"--workspace", "--overwrite">>,
    <<"--bogus", "v">>,
    <<"oops">> }

EnvPool ==
  { [GEOSERVER_URL |-> "http://gs", GEOSERVER_WORKSPACE |-> "ws",
     GEOSERVER_USER |-> "admin", GEOSERVER_PASSWORD |-> "pw"],
    [GEOSERVER_URL |-> "http://gs", GEOSERVER_WORKSPACE |-> "ws",
     GEOSERVER_USER |-> "admin", GEOSERVER_PASSWORD |-> ""] }

----------------------------------------------------------------------------
(* HTTP responses: fetch either rejects (threw) or resolves with a status  *)

StatusPool == {200, 201, 409, 500}

Responses ==
  {[threw |-> TRUE, status |-> 0]} \cup {[threw |-> FALSE, status |-> s] : s \in StatusPool}

NoResp == [threw |-> FALSE, status |-> 0]

\* response.ok
ResponseOk(r) == ~r.threw /\ r.status >= 200 /\ r.status <= 299

\* response.status === 409
IsConflict(r) == ~r.threw /\ r.status = 409

----------------------------------------------------------------------------
(* The run of main *)

VARIABLES
  argv,           \* process.argv.slice(2)
  env,            \* process.env
  tree,           \* the directory tree under options.directory
  dirAccessible,  \* whether fsp.access(directory) succeeds
  pc,             \* the position of main
  options,        \* the parsed options
  exitCode,       \* process.exitCode
  shapefiles,     \* the result of collectShapefiles
  idx,            \* the position of the for-of loop in shapefiles, 0 before it
  componentPaths, \* the component list of the current dataset
  zipPath,        \* the current iteration's zipPath: 0 is undefined, k the bundle of dataset k
  tempDir,        \* the temporary directory: "none", "exists", "removed"
  bundles,        \* the bundle files that exist, by dataset index
  inflight,       \* the request awaiting its response: "none", "upload", "create", "update"
  hist,           \* per dataset started, what was done for it and what was printed
  said,           \* the run-level message printed: "", "nothing", "finished", "error"
  pending,        \* the number of requests sent whose fetch has not settled
  tempOps,        \* how often the temporary directory was created and removed
  lst             \* the state of the listing utility (listWfsUrls.js)

vars == <<argv, env, tree, dirAccessible, pc, options, exitCode, shapefiles, idx,
          componentPaths, zipPath, tempDir, bundles, inflight, hist, said,
          pending, tempOps, lst>>

inputs == <<argv, env, tree, dirAccessible>>

\* no error was thrown by gatherComponents
NoError == [ext |-> <<>>, shpPath |-> <<>>]

\* the listing utility before it runs
ListIdle == [pc |-> "off"]

\* the record of a dataset whose iteration starts
NewHist(shpPath) ==
  [path |-> shpPath, gathers |-> 0, gathered |-> FALSE, zips |-> 0, zipOk |-> FALSE,
   readOk |-> FALSE, uploads |-> 0, creates |-> 0, updates |-> 0,
   uploadResp |-> NoResp, createResp |-> NoResp, updateResp |-> NoResp,
   report |-> "none", warned |-> FALSE,
   storeName |-> <<>>, layerName |-> <<>>, error |-> NoError, candidates |-> <<>>,
   uploadStore |-> <<>>, uploadParams |-> {}, uploadFlag |-> FALSE,
   publishFlag |-> FALSE, sentName |-> <<>>, sentNativeName |-> <<>>]

Init ==
  /\ argv \in ArgvPool
  /\ env \in EnvPool
  /\ tree \in Trees
  /\ dirAccessible \in BOOLEAN
  /\ pc = "parseArgs"
  /\ options = DefaultOptions(env)
  /\ exitCode = 0
  /\ shapefiles = <<>>
  /\ idx = 0
  /\ componentPaths = <<>>
  /\ zipPath = 0
  /\ tempDir = "none"
  /\ bundles = {}
  /\ inflight = "none"
  /\ hist = <<>>
  /\ said = ""
  /\ pending = 0
  /\ tempOps = [creates |-> 0, removes |-> 0]
  /\ lst = ListIdle

\* the runs that vary the command line, over a few trees
InitCli ==
  /\ argv \in CliArgvPool
  /\ env \in EnvPool
  /\ tree \in CliTrees
  /\ dirAccessible \in BOOLEAN
  /\ pc = "parseArgs"
  /\ options = DefaultOptions(env)
  /\ exitCode = 0
  /\ shapefiles = <<>>
  /\ idx = 0
  /\ componentPaths = <<>>
  /\ zipPath = 0
  /\ tempDir = "none"
  /\ bundles = {}
  /\ inflight = "none"
  /\ hist = <<>>
  /\ said = ""
  /\ pending = 0
  /\ tempOps = [creates |-> 0, removes |-> 0]
  /\ lst = ListIdle

\* Fatal with the exit code left alone
Fatal_NoExitCode ==
  /\ said' = "error"
  /\ exitCode' = exitCode
  /\ pc' = "done"

\* the catch of main: print the message, set the exit code
Fatal ==
  /\ said' = "error"
  /\ exitCode' = 1
  /\ pc' = "done"

\* const options = parseArgs(process.argv.slice(2))
ParseArgs ==
  /\ pc = "parseArgs"
  /\ LET r == parseArgs(argv, env)
     IN IF r.ok
        THEN /\ options' = r.options
             /\ pc' = "access"
             /\ UNCHANGED <<said, exitCode>>
        ELSE /\ Fatal
             /\ UNCHANGED options
  /\ UNCHANGED <<inputs, lst, pending, tempOps, shapefiles, idx, componentPaths, zipPath, tempDir, bundles,
                 inflight, hist>>

\* await fsp.access(directory)
Access ==
  /\ pc = "access"
  /\ IF dirAccessible
     THEN pc' = "collect" /\ UNCHANGED <<said, exitCode>>
     ELSE Fatal
  /\ UNCHANGED <<inputs, lst, pending, tempOps, options, shapefiles, idx, componentPaths, zipPath, tempDir,
                 bundles, inflight, hist>>

\* AfterCollect with the early return left out
AfterCollect_NoReturn(found) == "mkdtemp"

\* the position after discovery: return when nothing was found
AfterCollect(found) == IF Len(found) = 0 THEN "done" ELSE "mkdtemp"

\* const shapefiles = await collectShapefiles(directory), and the empty case
Collect ==
  /\ pc = "collect"
  /\ LET found == collectShapefiles(tree)
         next == AfterCollect(found)
     IN /\ shapefiles' = found
        /\ pc' = next
        /\ said' = IF next = "done" THEN "nothing" ELSE said
  /\ UNCHANGED <<inputs, lst, pending, tempOps, options, exitCode, idx, componentPaths, zipPath, tempDir,
                 bundles, inflight, hist>>

\* buildAuthHeader, await fsp.mkdtemp(...)
Mkdtemp ==
  /\ pc = "mkdtemp"
  /\ tempDir' = "exists"
  /\ tempOps' = [tempOps EXCEPT !.creates = @ + 1]
  /\ pc' = "loop"
  /\ UNCHANGED <<inputs, lst, pending, options, exitCode, shapefiles, idx, componentPaths, zipPath,
                 bundles, inflight, hist, said>>

\* IterPath of a loop that runs from the last element to the first
IterPath_Reversed(files, i) == files[Len(files) - i + 1]

\* the element the for-of loop visits at its i-th iteration
IterPath(files, i) == files[i]

\* the head of an iteration of for (const shpPath of shapefiles): names are
\* computed, "Processing ..." is printed; after the last one the loop ends
LoopHead ==
  /\ pc = "loop"
  /\ IF idx < Len(shapefiles)
     THEN /\ idx' = idx + 1
          /\ LET shpPath == IterPath(shapefiles, idx')
             IN hist' = Append(hist, [NewHist(shpPath) EXCEPT
                                        !.storeName = StoreName(options, shpPath),
                                        !.layerName = LayerName(options, shpPath)])
          /\ zipPath' = 0
          /\ componentPaths' = <<>>
          /\ pc' = "gather"
     ELSE /\ pc' = "rmTemp"
          /\ UNCHANGED <<idx, hist, zipPath, componentPaths>>
  /\ UNCHANGED <<inputs, lst, pending, tempOps, options, exitCode, shapefiles, tempDir, bundles, inflight, said>>

\* the current dataset's record, updated
Cur == Len(hist)

Upd(h) == hist' = [hist EXCEPT ![Cur] = h]

\* the position after gatherComponents returned (ok) or threw
AfterGather(ok) == IF ok THEN "zip" ELSE "loop"

\* componentPaths = await gatherComponents(shpPath), and its catch
Gather ==
  /\ pc = "gather"
  /\ LET r == gatherComponents(tree, hist[Cur].path)
         next == AfterGather(r.ok)
     IN /\ componentPaths' = r.components
        /\ pc' = next
        /\ Upd([hist[Cur] EXCEPT !.gathers = @ + 1, !.gathered = r.ok,
                                 !.candidates = r.candidates,
                                 !.error = [ext |-> r.ext, shpPath |-> r.shpPath],
                                 !.report = IF next = "loop" THEN "skipped" ELSE @])
  /\ UNCHANGED <<inputs, lst, pending, tempOps, options, exitCode, shapefiles, idx, zipPath, tempDir, bundles,
                 inflight, said>>

\* AfterZip with the continue of the catch left out
AfterZip_NoContinue(archived) == "upload"

\* the position after createZip returned (archived) or threw
AfterZip(archived) == IF archived THEN "upload" ELSE "loop"

\* zipPath = await createZip(...), and its catch: mkdir -p of the temporary
\* directory, rm -f of the destination, then the archiver, which may fail
CreateZip ==
  /\ pc = "zip"
  /\ \E archived \in BOOLEAN :
       /\ tempDir' = "exists"
       /\ tempOps' = IF tempDir = "exists" THEN tempOps
                     ELSE [tempOps EXCEPT !.creates = @ + 1]
       /\ pc' = AfterZip(archived)
       /\ IF archived
          THEN /\ bundles' = bundles \cup {Cur}
               /\ zipPath' = Cur
               /\ Upd([hist[Cur] EXCEPT !.zips = @ + 1, !.zipOk = TRUE])
          ELSE /\ bundles' = bundles \ {Cur}
               /\ zipPath' = 0
               /\ Upd([hist[Cur] EXCEPT !.zips = @ + 1, !.report = "zipFailed"])
  /\ UNCHANGED <<inputs, lst, pending, options, exitCode, shapefiles, idx, componentPaths, inflight, said>>

\* AfterUpload with the test of response.ok left out
AfterUpload_Unchecked(r) == IF r.threw THEN "throw" ELSE "return"

\* what uploadDatastoreZip does with the response of its PUT
AfterUpload(r) == IF r.threw \/ ~ResponseOk(r) THEN "throw" ELSE "return"

\* AfterCreate with the overwrite test left out: every conflict is updated
AfterCreate_IgnoresFlag(r, overwrite) ==
  IF r.threw THEN "throw"
  ELSE IF ResponseOk(r) THEN "return"
  ELSE IF IsConflict(r) THEN "update"
  ELSE "throw"

\* what publishLayer does with the response of its POST
AfterCreate(r, overwrite) ==
  IF r.threw THEN "throw"
  ELSE IF ResponseOk(r) THEN "return"
  ELSE IF IsConflict(r) THEN (IF ~overwrite THEN "skip" ELSE "update")
  ELSE "throw"

\* AfterUpdate with the test of adjustResponse.ok inverted
AfterUpdate_Inverted(r) == IF r.threw \/ ResponseOk(r) THEN "throw" ELSE "return"

\* AfterUpdate with the test of adjustResponse.ok left out
AfterUpdate_Unchecked(r) == IF r.threw THEN "throw" ELSE "return"

\* what publishLayer does with the response of its PUT
AfterUpdate(r) == IF r.threw \/ ~ResponseOk(r) THEN "throw" ELSE "return"

\* what main prints once the try block ended: the catch prints the failure,
\* the statement after publishLayer prints the success
MainReport(thrown) == IF thrown THEN "failed" ELSE "published"

\* UploadParams that always asks for the overwrite
UploadParams_AlwaysOverwrite(overwrite) ==
  {<<"charset", "UTF-8">>, <<"configure", "none">>, <<"update", "overwrite">>}

\* the query parameters of the upload
UploadParams(overwrite) ==
  {<<"charset", "UTF-8">>, <<"configure", "none">>}
    \cup (IF overwrite THEN {<<"update", "overwrite">>} ELSE {})

\* UploadRequest that does not await the response: the PUT is sent and the
\* driver goes straight on to publishing
UploadRequest_NotAwaited ==
  /\ pc = "upload"
  /\ inflight' = "upload"
  /\ pending' = pending + 1
  /\ pc' = "create"
  /\ Upd([hist[Cur] EXCEPT !.readOk = TRUE, !.uploads = @ + 1])
  /\ UNCHANGED <<inputs, lst, tempOps, options, exitCode, shapefiles, idx, componentPaths, zipPath,
                 tempDir, bundles, said>>

\* uploadDatastoreZip up to its fetch: the bundle is read, which may fail,
\* then the PUT is sent
UploadRequest ==
  /\ pc = "upload"
  /\ \E readOk \in BOOLEAN :
       IF readOk
       THEN /\ inflight' = "upload"
            /\ pending' = pending + 1
            /\ pc' = "uploadWait"
            /\ Upd([hist[Cur] EXCEPT !.readOk = TRUE, !.uploads = @ + 1,
                                     !.uploadStore = hist[Cur].storeName,
                                     !.uploadFlag = options.overwrite,
                                     !.uploadParams = UploadParams(options.overwrite)])
       ELSE /\ pc' = "finally"
            /\ Upd([hist[Cur] EXCEPT !.report = MainReport(TRUE)])
            /\ UNCHANGED <<inflight, pending>>
  /\ UNCHANGED <<inputs, lst, tempOps, options, exitCode, shapefiles, idx, componentPaths, zipPath,
                 tempDir, bundles, said>>

\* the response of the upload: a non-2xx status or a rejected fetch throws
UploadResponse ==
  /\ pc = "uploadWait"
  /\ \E r \in Responses :
       LET thrown == AfterUpload(r) = "throw"
       IN /\ pc' = IF thrown THEN "finally" ELSE "create"
          /\ Upd([hist[Cur] EXCEPT !.uploadResp = r,
                                   !.report = IF thrown THEN MainReport(TRUE) ELSE @])
  /\ pending' = pending - 1
  /\ inflight' = "none"
  /\ UNCHANGED <<inputs, lst, tempOps, options, exitCode, shapefiles, idx, componentPaths, zipPath,
                 tempDir, bundles, said>>

\* publishLayer up to its first fetch: the POST of the feature type
CreateRequest ==
  /\ pc = "create"
  /\ pending' = pending + 1
  /\ inflight' = "create"
  /\ pc' = "createWait"
  /\ Upd([hist[Cur] EXCEPT !.creates = @ + 1,
                           !.publishFlag = options.overwrite,
                           !.sentName = hist[Cur].layerName,
                           !.sentNativeName = NativeName(hist[Cur].path)])
  /\ UNCHANGED <<inputs, lst, tempOps, options, exitCode, shapefiles, idx, componentPaths, zipPath,
                 tempDir, bundles, said>>

\* the response of the POST, up to the PUT or to the end of the try block
CreateResponse ==
  /\ pc = "createWait"
  /\ \E r \in Responses :
       LET next == AfterCreate(r, hist[Cur].publishFlag)
       IN /\ pc' = IF next = "update" THEN "update" ELSE "finally"
          /\ Upd([hist[Cur] EXCEPT !.createResp = r,
                                   !.warned = (next = "skip"),
                                   !.report = IF next = "update" THEN @
                                              ELSE MainReport(next = "throw")])
  /\ pending' = pending - 1
  /\ inflight' = "none"
  /\ UNCHANGED <<inputs, lst, tempOps, options, exitCode, shapefiles, idx, componentPaths, zipPath,
                 tempDir, bundles, said>>

\* the PUT of the feature type after a conflict
UpdateRequest ==
  /\ pc = "update"
  /\ pending' = pending + 1
  /\ inflight' = "update"
  /\ pc' = "updateWait"
  /\ Upd([hist[Cur] EXCEPT !.updates = @ + 1])
  /\ UNCHANGED <<inputs, lst, tempOps, options, exitCode, shapefiles, idx, componentPaths, zipPath,
                 tempDir, bundles, said>>

\* the response of the PUT, up to the end of the try block
UpdateResponse ==
  /\ pc = "updateWait"
  /\ \E r \in Responses :
       Upd([hist[Cur] EXCEPT !.updateResp = r,
                             !.report = MainReport(AfterUpdate(r) = "throw")])
  /\ pc' = "finally"
  /\ pending' = pending - 1
  /\ inflight' = "none"
  /\ UNCHANGED <<inputs, lst, tempOps, options, exitCode, shapefiles, idx, componentPaths, zipPath,
                 tempDir, bundles, said>>

\* AfterFinally with the removal left out
AfterFinally_Keeps(files, zp) == files

\* the bundles left once the finally block ran with this zipPath
AfterFinally(files, zp) == IF zp # 0 THEN files \ {zp} ELSE files

\* finally: if (zipPath) await fsp.rm(zipPath, {force: true})
Finally ==
  /\ pc = "finally"
  /\ bundles' = AfterFinally(bundles, zipPath)
  /\ pc' = "loop"
  /\ UNCHANGED <<inputs, lst, pending, tempOps, options, exitCode, shapefiles, idx, componentPaths, zipPath,
                 tempDir, inflight, hist, said>>

\* RmTemp that leaves the temporary directory in place
RmTemp_Skipped ==
  /\ pc = "rmTemp"
  /\ said' = "finished"
  /\ pc' = "done"
  /\ UNCHANGED <<inputs, lst, pending, tempOps, options, exitCode, shapefiles, idx, componentPaths,
                 zipPath, tempDir, bundles, inflight, hist>>

\* await fsp.rm(tempDir, {recursive: true, force: true}), "Finished ..."
RmTemp ==
  /\ pc = "rmTemp"
  /\ tempDir' = "removed"
  /\ tempOps' = [tempOps EXCEPT !.removes = @ + 1]
  /\ bundles' = {}
  /\ said' = "finished"
  /\ pc' = "done"
  /\ UNCHANGED <<inputs, lst, pending, options, exitCode, shapefiles, idx, componentPaths, zipPath,
                 inflight, hist>>

Next ==
  \/ ParseArgs
  \/ Access
  \/ Collect
  \/ Mkdtemp
  \/ LoopHead
  \/ Gather
  \/ CreateZip
  \/ UploadRequest
  \/ UploadResponse
  \/ CreateRequest
  \/ CreateResponse
  \/ UpdateRequest
  \/ UpdateResponse
  \/ Finally
  \/ RmTemp

Spec == Init /\ [][Next]_vars

SpecCli == InitCli /\ [][Next]_vars

\* main is one flow of control that resumes whenever the awaited file
\* operation, archiver or request has returned or failed: weak fairness of
\* Next, written out for a Next that is enabled exactly when pc # "done"
SpecCliFair == SpecCli /\ ([]<>(pc = "done") \/ []<><<Next>>_vars)

----------------------------------------------------------------------------
(* Vocabulary of the properties *)

Conflict409 == [threw |-> FALSE, status |-> 409]

\* the response is a 2xx status
Is2xx(r) == ~r.threw /\ r.status \in 200..299

\* a response arrived (or the fetch was rejected) and it is not a 2xx status
NonSuccess(r) == r # NoResp /\ ~Is2xx(r)

\* the iteration of dataset k has ended
Ended(k) == k < Len(hist) \/ (k = Len(hist) /\ pc \in {"loop", "rmTemp", "done"})

\* the loop leaves no discovered dataset out: no dataset is started before
\* its predecessor, and a run that entered the loop and ended went through
\* every discovered dataset and left the exit code alone
BatchContinues ==
  /\ Len(hist) <= Len(shapefiles)
  /\ (pc \in {"rmTemp", "done"} /\ shapefiles # <<>>) =>
        /\ Len(hist) = Len(shapefiles)
        /\ \A k \in 1..Len(hist) : hist[k].gathers = 1
        /\ exitCode = 0

\* C1: an update request (PUT) is issued for a dataset only if its create
\* request returned 409 and the overwrite flag is set
C1_UpdateOnlyOnConflictWithOverwrite ==
  \A k \in 1..Len(hist) :
    hist[k].updates > 0 => (hist[k].createResp = Conflict409 /\ options.overwrite)

C1_Witness ==
  \E k \in 1..Len(hist) :
    hist[k].updates = 1 /\ hist[k].createResp = Conflict409 /\ options.overwrite

\* C2: a create answered 409 with the overwrite flag unset ends the dataset
\* as skipped: no update request, no failure reported, and the dataset is
\* not reported as published
C2_ConflictWithoutOverwriteIsSkipped ==
  \A k \in 1..Len(hist) :
    (Ended(k) /\ hist[k].createResp = Conflict409 /\ ~options.overwrite) =>
       /\ hist[k].updates = 0
       /\ hist[k].warned
       /\ hist[k].report # "failed"
       /\ hist[k].report # "published"

\* C3: a create answered 409 with the overwrite flag set is followed by
\* exactly one update request, the create is not repeated, and the dataset
\* is reported published when the update succeeds
C3_ConflictWithOverwriteUpdatesOnce ==
  \A k \in 1..Len(hist) :
    /\ hist[k].creates <= 1
    /\ hist[k].updates <= 1
    /\ (Ended(k) /\ hist[k].createResp = Conflict409 /\ options.overwrite) =>
          /\ hist[k].creates = 1
          /\ hist[k].updates = 1
          /\ (Is2xx(hist[k].updateResp) => hist[k].report = "published")

C3_Witness ==
  \E k \in 1..Len(hist) :
    /\ Ended(k) /\ hist[k].createResp = Conflict409 /\ options.overwrite
    /\ Is2xx(hist[k].updateResp) /\ hist[k].report = "published"

\* C4: a create response that is neither 2xx nor 409 (or a rejected create),
\* and any non-2xx update response (or a rejected update), ends the dataset
\* as a failure: it is reported failed and not published, no further request
\* is issued for it, and the batch goes on with the next dataset
C4_PublishFailureIsPerItem ==
  /\ \A k \in 1..Len(hist) :
       LET h == hist[k]
           createFailed == NonSuccess(h.createResp) /\ h.createResp # Conflict409
           updateFailed == NonSuccess(h.updateResp)
       IN (createFailed \/ updateFailed) =>
            /\ h.report = "failed"
            /\ h.uploads = 1 /\ h.creates = 1
            /\ (createFailed => h.updates = 0)
            /\ (updateFailed => h.updates = 1)
            /\ (k = Len(hist) =>
                  pc \in {"finally", "loop", "rmTemp", "done"} /\ inflight = "none")
  /\ BatchContinues

C4_Witness ==
  \E k \in 1..Len(hist) :
    /\ k < Len(hist)
    /\ NonSuccess(hist[k].updateResp)
    /\ hist[k].report = "failed"
    /\ hist[k + 1].gathers = 1

\* the primary files of a tree: the files whose lower-cased name ends in
\* ".shp", by directory and position in its listing
PrimaryFiles(t) ==
  {<<dir, i>> \in ({<<>>} \X (1..Len(t.root))) \cup ({<<SubDirName>>} \X (1..Len(t.sub))) :
     LET e == Readdir(t, dir)[i]
     IN ~e.isDir /\ endsWith(toLowerCase(e.name), ShpExt)}

\* the primary file p has, in its directory, a member for the extension ext:
\* an entry named, case aside, as the stem of p followed by ext
HasMember(t, p, ext) ==
  \E i \in 1..Len(Readdir(t, Dirname(p))) :
    toLowerCase(Readdir(t, Dirname(p))[i].name) = toLowerCase(ParseName(p)) \o ext

CompleteSet(t, p) == \A e \in 1..Len(required) : HasMember(t, p, required[e])

AllComplete(t) ==
  \A f \in PrimaryFiles(t) : CompleteSet(t, f[1] \o <<Readdir(t, f[1])[f[2]].name>>)

\* the sum of a counter over the first k datasets started
RECURSIVE Total(_, _)
Total(field, k) == IF k = 0 THEN 0 ELSE hist[k][field] + Total(field, k - 1)

TotalUploads == Total("uploads", Len(hist))
TotalCreates == Total("creates", Len(hist))
TotalUpdates == Total("updates", Len(hist))

\* the run went through main to its end without a startup error
FullRun == pc = "done" /\ exitCode = 0

\* C5 as stated: over a tree of N primary files, all with complete component
\* sets, a full run issues exactly N upload requests and at most N publish
\* sequences, and no request when N = 0
C5_ExactlyNUploads ==
  (FullRun /\ AllComplete(tree)) =>
     /\ TotalUploads = Cardinality(PrimaryFiles(tree))
     /\ TotalCreates <= Cardinality(PrimaryFiles(tree))
     /\ TotalUpdates <= TotalCreates

\* C5 amended: over a tree of N primary files, all with complete component
\* sets, a full run issues one upload request for each dataset whose bundle
\* was archived and read and none for the others (so at most N, and exactly
\* N when no archiver run and no bundle read fails), at most one create per
\* upload and at most one update per create, and no request when N = 0
C5_OneUploadPerPackagedDataset ==
  (FullRun /\ AllComplete(tree)) =>
     /\ Len(hist) = Cardinality(PrimaryFiles(tree))
     /\ \A k \in 1..Len(hist) :
          /\ hist[k].zips = 1
          /\ hist[k].uploads = (IF hist[k].zipOk /\ hist[k].readOk THEN 1 ELSE 0)
          /\ hist[k].creates <= hist[k].uploads
          /\ hist[k].updates <= hist[k].creates
     /\ TotalUploads <= Cardinality(PrimaryFiles(tree))
     /\ ((\A k \in 1..Len(hist) : hist[k].zipOk /\ hist[k].readOk) =>
           TotalUploads = Cardinality(PrimaryFiles(tree)))
     /\ TotalCreates <= Cardinality(PrimaryFiles(tree))
     /\ (PrimaryFiles(tree) = {} => inflight = "none" /\ hist = <<>>)

C5_Witness ==
  /\ FullRun /\ AllComplete(tree)
  /\ Cardinality(PrimaryFiles(tree)) = 2
  /\ TotalUploads = 1
  /\ \E k \in 1..Len(hist) : hist[k].zips = 1 /\ ~hist[k].zipOk

\* C6: for a dataset that lacks one of .shp, .shx, .dbf no packaging, upload
\* or publish step is performed, and the datasets discovered after it are
\* still processed
C6_IncompleteDatasetIsExcluded ==
  /\ \A k \in 1..Len(hist) :
       ~CompleteSet(tree, hist[k].path) =>
          /\ hist[k].zips = 0 /\ hist[k].uploads = 0
          /\ hist[k].creates = 0 /\ hist[k].updates = 0
          /\ k \notin bundles
          /\ (k = Len(hist) => pc \in {"gather", "loop", "rmTemp", "done"})
  /\ BatchContinues

C6_Witness ==
  \E k \in 1..Len(hist) :
    /\ k < Len(hist)
    /\ ~CompleteSet(tree, hist[k].path)
    /\ hist[k].report = "skipped"
    /\ hist[k + 1].uploads = 1

\* C7: once the processing of a dataset has ended its bundle file does not
\* exist, whatever the outcome, so no bundle of an earlier dataset exists
\* while a later dataset is processed
C7_BundleRemovedAfterDataset ==
  /\ \A k \in 1..Len(hist) : Ended(k) => k \notin bundles
  /\ bundles \subseteq {Len(hist)}
  /\ (pc = "gather" => bundles = {})

C7_Witness ==
  /\ pc = "gather"
  /\ Len(hist) = 2
  /\ hist[1].zipOk
  /\ hist[1].report = "failed"

\* C8: datasets are processed in discovery order, one at a time (a dataset
\* is started only when every earlier one has its outcome, its bundle gone
\* and no request pending), and within a dataset grouping precedes
\* packaging, packaging the upload request, and the upload's response the
\* first publish request
C8_SequentialInDiscoveryOrder ==
  /\ Len(hist) <= Len(shapefiles)
  /\ idx = Len(hist)
  /\ \A k \in 1..Len(hist) :
       /\ hist[k].path = shapefiles[k]
       /\ (k < Len(hist) => hist[k].report # "none" /\ k \notin bundles)
       /\ (hist[k].zips > 0 => hist[k].gathers = 1 /\ hist[k].gathered)
       /\ (hist[k].uploads > 0 => hist[k].zips = 1 /\ hist[k].zipOk)
       /\ (hist[k].creates > 0 => hist[k].uploads = 1 /\ hist[k].uploadResp # NoResp)
       /\ (hist[k].updates > 0 => hist[k].creates = 1 /\ hist[k].createResp # NoResp)
  /\ (inflight # "none" => Len(hist) > 0 /\ hist[Len(hist)].report = "none")

C8_Witness ==
  /\ Len(hist) = 2
  /\ hist[1].path # hist[2].path
  /\ hist[1].creates = 1
  /\ hist[2].creates = 1

\* C9: a create request is issued for a dataset only after its upload
\* request received a 2xx response; a non-2xx upload response ends the
\* dataset as a failure with no publish request, and the batch goes on
C9_PublishOnlyAfterUploadSuccess ==
  /\ \A k \in 1..Len(hist) :
       /\ (hist[k].creates > 0 => Is2xx(hist[k].uploadResp))
       /\ NonSuccess(hist[k].uploadResp) =>
            /\ hist[k].creates = 0 /\ hist[k].updates = 0
            /\ hist[k].report = "failed"
            /\ (k = Len(hist) => pc \in {"finally", "loop", "rmTemp", "done"})
  /\ BatchContinues

C9_Witness ==
  \E k \in 1..Len(hist) :
    /\ k < Len(hist)
    /\ hist[k].uploadResp = [threw |-> FALSE, status |-> 500]
    /\ hist[k + 1].creates = 1

\* C10: when the tree holds no primary file the run ends without creating
\* the temporary directory or a bundle and without any network request
C10_NothingFoundNothingDone ==
  PrimaryFiles(tree) = {} =>
     /\ tempDir = "none"
     /\ bundles = {}
     /\ inflight = "none"
     /\ hist = <<>>
     /\ pc \in {"parseArgs", "access", "collect", "done"}

C10_Witness ==
  /\ PrimaryFiles(tree) = {}
  /\ tree.root # <<>>
  /\ pc = "done"
  /\ said = "nothing"

----------------------------------------------------------------------------
(* The command line and the exit code *)

\* the options that take a value
CliValueFlags ==
  {"--directory", "--dir", "--geoserver-url", "--workspace", "--username",
   "--password", "--store-prefix", "--layer-prefix"}

\* the argument list is a sequence of --overwrite and of value options, each
\* followed by a value that is not itself an option
RECURSIVE WellFormedArgv(_)
WellFormedArgv(a) ==
  \/ a = <<>>
  \/ a[1] = "--overwrite" /\ WellFormedArgv(Tail(a))
  \/ /\ Len(a) >= 2
     /\ a[1] \in CliValueFlags
     /\ a[2] # "" /\ a[2] \notin OptionTokens
     /\ WellFormedArgv(Tail(Tail(a)))

\* the value the command line gives to flag (the last one wins), or dflt
RECURSIVE Setting(_, _, _)
Setting(a, flag, dflt) ==
  IF Len(a) = 0 THEN dflt
  ELSE IF a[1] = "--overwrite" THEN Setting(Tail(a), flag, dflt)
  ELSE IF Len(a) < 2 THEN dflt
  ELSE Setting(Tail(Tail(a)), flag, IF a[1] = flag THEN a[2] ELSE dflt)

\* one of the four connection settings is given neither by the command line
\* nor by the environment
MissingConfig ==
  \/ Setting(argv, "--geoserver-url", env.GEOSERVER_URL) = ""
  \/ Setting(argv, "--workspace", env.GEOSERVER_WORKSPACE) = ""
  \/ Setting(argv, "--username", env.GEOSERVER_USER) = ""
  \/ Setting(argv, "--password", env.GEOSERVER_PASSWORD) = ""

\* the run cannot start: the command line is malformed, a connection setting
\* is missing, or the root directory is inaccessible
StartupError == ~WellFormedArgv(argv) \/ MissingConfig \/ ~dirAccessible

----------------------------------------------------------------------------
(* Names sent to the server *)

WhiteSpace == {" ", "\t"}

\* s without its leading whitespace
RECURSIVE DropWs(_)
DropWs(s) == IF s = <<>> \/ Head(s) \notin WhiteSpace THEN s ELSE DropWs(Tail(s))

\* the longest prefix of s without whitespace
RECURSIVE TakeWord(_)
TakeWord(s) ==
  IF s = <<>> \/ Head(s) \in WhiteSpace THEN <<>> ELSE <<Head(s)>> \o TakeWord(Tail(s))

\* the words of s (its maximal runs of non-whitespace) joined by "_": s
\* trimmed, every run of whitespace replaced by one underscore
RECURSIVE Underscored(_)
Underscored(s) ==
  LET t == DropWs(s)
      w == TakeWord(t)
      r == DropWs(SubSeq(t, Len(w) + 1, Len(t)))
  IN IF t = <<>> THEN <<>>
     ELSE IF r = <<>> THEN w
     ELSE w \o <<"_">> \o Underscored(r)

\* s from its first to its last non-whitespace character
Trimmed(s) ==
  LET keep == {i \in 1..Len(s) : s[i] \notin WhiteSpace}
  IN IF keep = {} THEN <<>>
     ELSE SubSeq(s, CHOOSE i \in keep : \A j \in keep : i <= j,
                    CHOOSE i \in keep : \A j \in keep : j <= i)

\* the stem of a primary file: its name without the final ".shp"
Stem(p) == SubSeq(p[Len(p)], 1, Len(p[Len(p)]) - Len(ShpExt))

\* the names of every dataset started are the prefixes of the command line
\* followed by the underscored stem
NamesArePrefixedStems ==
  \A k \in 1..Len(hist) :
    /\ hist[k].storeName =
         Chars(Setting(argv, "--store-prefix", "")) \o Underscored(Stem(hist[k].path))
    /\ hist[k].layerName =
         Chars(Setting(argv, "--layer-prefix", "")) \o Underscored(Stem(hist[k].path))
    /\ (hist[k].uploads > 0 => hist[k].uploadStore = hist[k].storeName)
    /\ (hist[k].creates > 0 => hist[k].sentName = hist[k].layerName)

\* C12 as stated: store and layer name are the prefix followed by the stem,
\* trimmed, whitespace runs replaced by one underscore, and the native name
\* of the feature-type descriptor is the stem trimmed
C12_NativeNameIsTrimmedStem ==
  /\ NamesArePrefixedStems
  /\ \A k \in 1..Len(hist) :
       hist[k].creates > 0 => hist[k].sentNativeName = Trimmed(Stem(hist[k].path))

\* C12 amended: store and layer name are the prefix followed by the stem,
\* trimmed, whitespace runs replaced by one underscore, and the native name
\* of the feature-type descriptor is the stem as it is, untrimmed
C12_NativeNameIsRawStem ==
  /\ NamesArePrefixedStems
  /\ \A k \in 1..Len(hist) :
       hist[k].creates > 0 => hist[k].sentNativeName = Stem(hist[k].path)

C12_Witness ==
  \E k \in 1..Len(hist) :
    /\ hist[k].creates = 1
    /\ hist[k].storeName = <<"s", "_", "m", "_", "p">>
    /\ hist[k].sentName = <<"l", "_", "m", "_", "p">>
    /\ hist[k].sentNativeName = <<" ", "m", " ", "\t", "p", " ">>

----------------------------------------------------------------------------
(* The component set *)

\* the entries of the directory of p named, case aside, by the stem of p
\* followed by one allow-listed suffix, as paths, in listing order
SiblingsByName(t, p) ==
  LET dir == Dirname(p)
      Named(e) ==
        \E i \in 1..Len(allowedSuffixes) :
          toLowerCase(e.name) = toLowerCase(Stem(p)) \o allowedSuffixes[i]
      kept == SelectSeq(Readdir(t, dir), Named)
  IN [i \in 1..Len(kept) |-> dir \o <<kept[i].name>>]

\* the list l has a member whose name ends, case aside, with ext
HasExt(l, ext) == \E i \in 1..Len(l) : endsWith(toLowerCase(l[i][Len(l[i])]), ext)

\* gatherComponents has just returned or thrown for the current dataset
JustGathered ==
  /\ pc \in {"zip", "loop"}
  /\ Len(hist) > 0
  /\ hist[Len(hist)].gathers = 1
  /\ hist[Len(hist)].zips = 0

\* C13: the candidates gatherComponents assembles are exactly the siblings
\* named, case aside, by the base name followed by one allow-listed suffix
\* (.shp.xml included), so no file of a dataset whose base name only starts
\* with this one is among them; a dataset with .shp, .shx and .dbf is
\* accepted whatever optional component it lacks, and its list is returned
C13_ComponentsAreExactSuffixSiblings ==
  JustGathered =>
    LET h == hist[Len(hist)]
    IN /\ h.candidates = SiblingsByName(tree, h.path)
       /\ \A i \in 1..Len(h.candidates) :
            LET name == h.candidates[i][Len(h.candidates[i])]
            IN endsWith(toLowerCase(name), ShpExt) =>
                 toLowerCase(name) = toLowerCase(h.path[Len(h.path)])
       /\ (CompleteSet(tree, h.path) => h.gathered)
       /\ (pc = "zip" => componentPaths = h.candidates)

C13_Witness ==
  \E k \in {Len(hist)} :
    /\ JustGathered
    /\ hist[k].path = <<RootPool[1]>>
    /\ hist[k].gathered
    /\ Len(hist[k].candidates) = 4
    /\ hist[k].candidates[4] = <<RootPool[4]>>
    /\ \E i \in 1..Len(tree.root) : tree.root[i].name = RootPool[5]

\* C14: gatherComponents throws exactly when its candidates have no member
\* for one of .shp, .shx, .dbf; the error names an extension that has no
\* member and the primary path, and no component list is returned
C14_FailsIffRequiredMissing ==
  JustGathered =>
    LET h == hist[Len(hist)]
        lacking == {e \in 1..Len(required) : ~HasExt(h.candidates, required[e])}
    IN /\ (~h.gathered <=> lacking # {})
       /\ (~h.gathered =>
             /\ \E e \in lacking : h.error.ext = required[e]
             /\ h.error.shpPath = h.path
             /\ pc = "loop"
             /\ componentPaths = <<>>)
       /\ (h.gathered => h.error = NoError /\ pc = "zip")

C14_Witness ==
  \E k \in {Len(hist)} :
    /\ JustGathered
    /\ hist[k].path = <<RootPool[1]>>
    /\ Len(hist[k].candidates) = 2
    /\ HasExt(hist[k].candidates, required[2])
    /\ ~hist[k].gathered
    /\ hist[k].error = [ext |-> <<".", "d", "b", "f">>, shpPath |-> <<RootPool[1]>>]

-----------------------------------------------------------------------------
(* Upload parameters *)

\* the command line asks for overwriting
OverwriteRequested == SeqContains(argv, "--overwrite")

\* C15: every upload request carries charset=UTF-8 and configure=none, and
\* carries update=overwrite exactly when the run's overwrite flag is set; the
\* upload and the publish decision of every dataset use that same flag
C15_UploadParamsFollowOverwriteFlag ==
  \A k \in 1..Len(hist) :
    /\ hist[k].uploads > 0 =>
         /\ <<"charset", "UTF-8">> \in hist[k].uploadParams
         /\ <<"configure", "none">> \in hist[k].uploadParams
         /\ (<<"update", "overwrite">> \in hist[k].uploadParams <=> OverwriteRequested)
         /\ \A p \in hist[k].uploadParams : p[1] \in {"charset", "configure", "update"}
         /\ hist[k].uploadFlag = OverwriteRequested
    /\ hist[k].creates > 0 => hist[k].publishFlag = OverwriteRequested
    /\ hist[k].updates > 0 => OverwriteRequested

\* two datasets were uploaded in a run without the overwrite flag, and the
\* second went on to its publish request
C15_Witness ==
  /\ Len(hist) = 2
  /\ ~OverwriteRequested
  /\ hist[1].uploads = 1
  /\ hist[2].uploads = 1
  /\ hist[2].creates = 1

-----------------------------------------------------------------------------
(* Requests in flight *)

\* the steps at which main is suspended on a network request
WaitingSteps == {"uploadWait", "createWait", "updateWait"}

\* C16: at most one network request is in flight at any time; the driver is
\* suspended on a request exactly while one is outstanding, so a new request
\* is sent only after the previous one's response or failure has arrived
C16_AtMostOneRequestInFlight ==
  /\ pending \in {0, 1}
  /\ (pending = 1 <=> pc \in WaitingSteps)
  /\ (pending = 0 <=> inflight = "none")
  /\ (pc \in {"upload", "create", "update"} => pending = 0)

\* the second dataset's update request is outstanding after five earlier
\* requests of the run were answered
C16_Witness ==
  /\ Len(hist) = 2
  /\ pc = "updateWait"
  /\ pending = 1
  /\ hist[1].uploads + hist[1].creates + hist[1].updates = 3
  /\ hist[2].uploads + hist[2].creates = 2

-----------------------------------------------------------------------------
(* The temporary directory *)

\* the temporary directory is made at most once and only for a non-empty
\* discovery, removed at most once and only when every dataset has ended,
\* and no bundle exists outside its lifetime
TempDirLifecycle ==
  /\ tempOps.creates \in {0, 1}
  /\ tempOps.removes \in {0, 1}
  /\ tempOps.removes <= tempOps.creates
  /\ (tempOps.creates = 1 => shapefiles # <<>>)
  /\ (tempDir = "none" <=> tempOps.creates = 0)
  /\ (tempDir = "removed" <=> tempOps.removes = 1)
  /\ (tempOps.removes = 1 =>
        /\ pc = "done"
        /\ Len(hist) = Len(shapefiles)
        /\ \A k \in 1..Len(hist) : Ended(k) /\ hist[k].report # "none"
        /\ bundles = {})
  /\ (bundles # {} => tempDir = "exists")
  /\ (pc \in {"zip", "upload", "uploadWait", "createWait", "updateWait", "finally"}
        => tempDir = "exists")
  /\ (\A k \in 1..Len(hist) : hist[k].zips > 0 => tempOps.creates = 1)
  /\ ((pc = "done" /\ tempOps.creates = 1) => tempOps.removes = 1)

\* C17: the temporary directory is created at most once per run and only
\* after at least one dataset was discovered; it is removed exactly once,
\* after the last dataset reached its outcome; no bundle is created after the
\* removal; and every run that created it reaches the removal, whatever
\* per-dataset failures occurred
C17_TempDirCreatedOnceRemovedOnce ==
  /\ []TempDirLifecycle
  /\ ((tempOps.creates = 1) ~> (tempOps.removes = 1))

\* a run of two datasets, one skipped and one failed, has removed the
\* temporary directory it created
C17_Witness ==
  /\ pc = "done"
  /\ Len(hist) = 2
  /\ tempOps = [creates |-> 1, removes |-> 1]
  /\ \E k \in 1..2 : hist[k].report = "failed"
  /\ \E k \in 1..2 : hist[k].report \in {"skipped", "zipFailed"}

-----------------------------------------------------------------------------
(* Terminal outcomes *)

\* the outcomes the run reported for dataset k
Outcomes(k) ==
  {o \in {"missingComponent", "packagingFailed", "failed", "skippedOnConflict", "published"} :
     \/ o = "missingComponent" /\ hist[k].report = "skipped"
     \/ o = "packagingFailed" /\ hist[k].report = "zipFailed"
     \/ o = "failed" /\ hist[k].report = "failed"
     \/ o = "skippedOnConflict" /\ hist[k].warned
     \/ o = "published" /\ hist[k].report = "published"}

\* C19: a run that has ended went through every discovered dataset, and each
\* of them has exactly one terminal outcome among: skipped for a missing
\* component, packaging failed, upload or publish failed, skipped on
\* conflict, published
C19_ExactlyOneTerminalOutcome ==
  pc = "done" =>
    /\ (exitCode = 0 => Len(hist) = Len(shapefiles))
    /\ \A k \in 1..Len(hist) : Cardinality(Outcomes(k)) = 1

-----------------------------------------------------------------------------
(* The listing utility: command line *)

\* the option tokens of the listing utility's command lines
ListOptionTokens ==
  {"--pretty", "--geoserver-url", "--workspace", "--username", "--password",
   "--max-features", "--bogus"}

\* arg.startsWith('--'), over the tokens of the listing utility
ListStartsWithDashes(arg) == arg \in ListOptionTokens

\* the characters of the values given to --max-features and --geoserver-url;
\* any other value is one chunk
ListChars(value) ==
  CASE value = "" -> <<>>
    [] value = "5" -> <<"5">>
    [] value = "0" -> <<"0">>
    [] value = "12" -> <<"1", "2">>
    [] value = "5x" -> <<"5", "x">>
    [] value = "-3" -> <<"-", "3">>
    [] value = " 7" -> <<" ", "7">>
    [] value = "x" -> <<"x">>
    [] value = "http://gs/" -> <<"http://gs", "/">>
    [] value = "http://gs//" -> <<"http://gs", "/", "/">>
    [] OTHER -> <<value>>

DecimalDigits == <<"0", "1", "2", "3", "4", "5", "6", "7", "8", "9">>

IsDigit(c) == SeqContains(DecimalDigits, c)

DigitValue(c) == (CHOOSE i \in 1..Len(DecimalDigits) : DecimalDigits[i] = c) - 1

\* the value of the longest prefix of digits of s from position i on, acc
\* being the value read so far
RECURSIVE ReadDigits(_, _, _)
ReadDigits(s, i, acc) ==
  IF i > Len(s) \/ ~IsDigit(s[i]) THEN acc
  ELSE ReadDigits(s, i + 1, 10 * acc + DigitValue(s[i]))

\* parseInt(value, 10): leading white space is skipped, a sign is read, then
\* the longest run of digits; NaN when there is no digit
parseInt(s) ==
  LET t == TrimStart(s)
      signed == Len(t) > 0 /\ t[1] \in {"+", "-"}
      d == IF signed THEN Tail(t) ELSE t
  IN IF Len(d) = 0 \/ ~IsDigit(d[1]) THEN [nan |-> TRUE, num |-> 0]
     ELSE [nan |-> FALSE,
           num |-> IF signed /\ t[1] = "-" THEN 0 - ReadDigits(d, 1, 0)
                   ELSE ReadDigits(d, 1, 0)]

\* value.replace(/\/+$/, '')
RECURSIVE StripSlashes(_)
StripSlashes(s) ==
  IF Len(s) > 0 /\ s[Len(s)] = "/" THEN StripSlashes(SubSeq(s, 1, Len(s) - 1)) ELSE s

ListDefaultOptions(e) ==
  [geoserverUrl |-> e.GEOSERVER_URL,
   workspace |-> e.GEOSERVER_WORKSPACE,
   username |-> e.GEOSERVER_USER,
   password |-> e.GEOSERVER_PASSWORD,
   pretty |-> FALSE,
   maxFeatures |-> 1000]

ListValueOptions ==
  {"--geoserver-url", "--workspace", "--username", "--password", "--max-features"}

\* the value switch of the listing utility's parseArgs, --max-features
\* excepted
ListSetOption(o, arg, value) ==
  CASE arg = "--geoserver-url" -> [o EXCEPT !.geoserverUrl = value]
    [] arg = "--workspace" -> [o EXCEPT !.workspace = value]
    [] arg = "--username" -> [o EXCEPT !.username = value]
    [] arg = "--password" -> [o EXCEPT !.password = value]

\* the argument loop of the listing utility from index i on
RECURSIVE ListParseLoop(_, _, _)
ListParseLoop(a, i, o) ==
  IF i > Len(a) THEN [ok |-> TRUE, options |-> o, error |-> ""]
  ELSE LET arg == a[i]
           value == IF i + 1 <= Len(a) THEN a[i + 1] ELSE ""
       IN IF ~ListStartsWithDashes(arg)
          THEN [ok |-> FALSE, options |-> o, error |-> "Unexpected argument"]
          ELSE IF arg = "--pretty"
          THEN ListParseLoop(a, i + 1, [o EXCEPT !.pretty = TRUE])
          ELSE IF value = "" \/ ListStartsWithDashes(value)
          THEN [ok |-> FALSE, options |-> o, error |-> "expects a value"]
          ELSE IF arg = "--max-features"
          THEN LET n == parseInt(ListChars(value))
               IN IF n.nan \/ n.num <= 0
                  THEN [ok |-> FALSE, options |-> o,
                        error |-> "--max-features must be a positive integer"]
                  ELSE ListParseLoop(a, i + 2, [o EXCEPT !.maxFeatures = n.num])
          ELSE IF arg \notin ListValueOptions
          THEN [ok |-> FALSE, options |-> o, error |-> "Unknown option"]
          ELSE ListParseLoop(a, i + 2, ListSetOption(o, arg, value))

\* parseArgs of the listing utility; the URL it returns is spelled in chunks
\* with its trailing slashes removed
listParseArgs(a, e) ==
  LET r == ListParseLoop(a, 1, ListDefaultOptions(e))
      o == r.options
  IN IF ~r.ok THEN r
     ELSE IF o.geoserverUrl = "" THEN [r EXCEPT !.ok = FALSE, !.error = "Missing GeoServer URL"]
     ELSE IF o.workspace = "" THEN [r EXCEPT !.ok = FALSE, !.error = "Missing workspace"]
     ELSE IF o.username = "" THEN [r EXCEPT !.ok = FALSE, !.error = "Missing username"]
     ELSE IF o.password = "" THEN [r EXCEPT !.ok = FALSE, !.error = "Missing password"]
     ELSE [r EXCEPT !.options.geoserverUrl = StripSlashes(ListChars(o.geoserverUrl))]

\* command lines of the listing utility
ListArgvPool ==
  { <<>>,
    <<"--pretty">>,
    <<"--max-features", "5">>,
    <<"--pretty", "--max-features", "12">>,
    <<"--max-features", "5x">>,
    <<"--max-features", " 7">>,
    <<"--max-features", "0">>,
    <<"--max-features", "-3">>,
    <<"--max-features", "x">>,
    <<"--geoserver-url", "http://gs//">>,
    <<"--password", "pw", "--pretty">>,
    <<"--workspace">>,
    <<"--workspace", "--pretty">>,
    <<"--bogus", "v">>,
    <<"oops">> }

-----------------------------------------------------------------------------
(* The listing utility: feature types *)

\* a property of a JSON object: absent, a string (spelled in characters), or
\* a value of another type
Absent == [type |-> "undefined", value |-> <<>>]
Str(chars) == [type |-> "string", value |-> chars]
Num == [type |-> "number", value |-> <<>>]

\* the feature types a listing may hold; an href is the path of its URL, or
\* is not a URL at all
FeatureTypePool ==
  << [name |-> Str(<<"r", "d">>), href |-> Absent, title |-> Str(<<"R">>)],
     [name |-> Absent, href |-> Str(<<"/", "f", "/", "l", "k", ".", "j", "s">>), title |-> Absent],
     [name |-> Num, href |-> Str(<<"/", "a", "%", "2", "0", "b", ".", "c", ".", "x">>), title |-> Num],
     [name |-> Str(<<>>), href |-> Str(<<"/", "f", "/", ".", "j", "s">>), title |-> Absent],
     [name |-> Absent, href |-> Str(<<>>), title |-> Absent],
     [name |-> Absent, href |-> Str(<<"/", "%", "z">>), title |-> Absent],
     [name |-> Absent, href |-> Str(<<"n", "o", "u", "r", "l">>), title |-> Absent] >>

\* new URL(href) throws unless href is absolute; the hrefs of the pool stand
\* for absolute URLs when they start with a slash
UrlParses(chars) == Len(chars) > 0 /\ chars[1] = "/"

\* the payloads of a 2xx listing response: a body that is not JSON, or the
\* value of payload.featureTypes.featureType (missing, the empty string of an
\* empty workspace, an array, or one object)
MaxListed == 2

Arrays ==
  UNION { [1..n -> 1..Len(FeatureTypePool)] : n \in 0..MaxListed }

Payloads ==
  {[json |-> FALSE, kind |-> "none", items |-> <<>>],
   [json |-> TRUE, kind |-> "missing", items |-> <<>>],
   [json |-> TRUE, kind |-> "emptyString", items |-> <<>>]}
    \cup {[json |-> TRUE, kind |-> "array", items |-> [i \in DOMAIN a |-> FeatureTypePool[a[i]]]] :
            a \in Arrays}
    \cup {[json |-> TRUE, kind |-> "object", items |-> <<FeatureTypePool[i]>>] :
            i \in 1..Len(FeatureTypePool)}

NoPayload == [json |-> FALSE, kind |-> "none", items |-> <<>>]

ListStatusPool == {200, 401, 404, 500}

\* what the fetch of the listing may give: a rejection, or a response
ListResponses ==
  {[threw |-> TRUE, status |-> 0, payload |-> NoPayload]}
    \cup {[threw |-> FALSE, status |-> s, payload |-> NoPayload] : s \in ListStatusPool \ {200}}
    \cup {[threw |-> FALSE, status |-> 200, payload |-> p] : p \in Payloads}

\* fetchFeatureTypes without its test of status 404
fetchFeatureTypes_No404(r) ==
  IF r.threw THEN [ok |-> FALSE, list |-> <<>>, error |-> "fetch failed"]
  ELSE IF ~ResponseOk(r)
  THEN [ok |-> FALSE, list |-> <<>>, error |-> "Failed to fetch feature types"]
  ELSE IF ~r.payload.json
  THEN [ok |-> FALSE, list |-> <<>>, error |-> "Unexpected token"]
  ELSE [ok |-> TRUE, list |-> r.payload.items, error |-> ""]

\* fetchFeatureTypes, given what its fetch gave
fetchFeatureTypes(r) ==
  IF r.threw THEN [ok |-> FALSE, list |-> <<>>, error |-> "fetch failed"]
  ELSE IF r.status = 404
  THEN [ok |-> TRUE, list |-> <<>>, error |-> ""]
  ELSE IF ~ResponseOk(r)
  THEN [ok |-> FALSE, list |-> <<>>, error |-> "Failed to fetch feature types"]
  ELSE IF ~r.payload.json
  THEN [ok |-> FALSE, list |-> <<>>, error |-> "Unexpected token"]
  ELSE CASE r.payload.kind = "array" -> [ok |-> TRUE, list |-> r.payload.items, error |-> ""]
         [] r.payload.kind = "object" -> [ok |-> TRUE, list |-> r.payload.items, error |-> ""]
         [] OTHER -> [ok |-> TRUE, list |-> <<>>, error |-> ""]

\* index of the last "/" of s, 0 when there is none
LastSlash(s) ==
  LET at == {i \in 1..Len(s) : s[i] = "/"}
  IN IF at = {} THEN 0 ELSE CHOOSE i \in at : \A j \in at : j <= i

\* s.replace(/\.[^.]+$/u, ''): a last dot followed by at least one character
\* is cut off with what follows it
CutExtension(s) ==
  LET d == LastDot(s)
  IN IF d > 0 /\ d < Len(s) THEN SubSeq(s, 1, d - 1) ELSE s

\* decodeURIComponent over the escapes of the pool: %20 is a space, any
\* other percent sign is malformed
RECURSIVE decodeURIComponent(_)
decodeURIComponent(s) ==
  IF Len(s) = 0 THEN [ok |-> TRUE, value |-> <<>>]
  ELSE IF s[1] # "%"
  THEN LET rest == decodeURIComponent(Tail(s))
       IN [ok |-> rest.ok, value |-> <<s[1]>> \o rest.value]
  ELSE IF Len(s) >= 3 /\ s[2] = "2" /\ s[3] = "0"
  THEN LET rest == decodeURIComponent(SubSeq(s, 4, Len(s)))
       IN [ok |-> rest.ok, value |-> <<" ">> \o rest.value]
  ELSE [ok |-> FALSE, value |-> <<>>]

UnableToDetermine == "Unable to determine layer name from feature type payload."

\* extractLayerName
extractLayerName(featureType) ==
  IF featureType.name.type = "string" /\ featureType.name.value # <<>>
  THEN [ok |-> TRUE, name |-> featureType.name.value, error |-> ""]
  ELSE IF featureType.href.type = "string" /\ Len(featureType.href.value) > 0
  THEN IF ~UrlParses(featureType.href.value)
       THEN [ok |-> FALSE, name |-> <<>>, error |-> "Invalid URL"]
       ELSE LET pathname == featureType.href.value
                lastSlash == LastSlash(pathname)
                lastSegment == SubSeq(pathname, lastSlash + 1, Len(pathname))
                withoutExt == CutExtension(lastSegment)
                decoded == decodeURIComponent(withoutExt)
            IN IF withoutExt = <<>>
               THEN [ok |-> FALSE, name |-> <<>>, error |-> UnableToDetermine]
               ELSE IF ~decoded.ok
               THEN [ok |-> FALSE, name |-> <<>>, error |-> "URI malformed"]
               ELSE [ok |-> TRUE, name |-> decoded.value, error |-> ""]
  ELSE [ok |-> FALSE, name |-> <<>>, error |-> UnableToDetermine]

\* buildWfsUrl: the URL as its base and its query parameters
buildWfsUrl(geoserverUrl, workspace, layerName, maxFeatures) ==
  [base |-> geoserverUrl \o <<"/wfs">>,
   service |-> "WFS",
   version |-> "2.0.0",
   request |-> "GetFeature",
   typeNames |-> <<workspace, ":">> \o layerName,
   outputFormat |-> "application/json",
   maxFeatures |-> maxFeatures]

\* the entry of one feature type
Entry(o, layerName, title) ==
  [layer |-> <<o.workspace, ":">> \o layerName,
   wfsUrl |-> buildWfsUrl(o.geoserverUrl, o.workspace, layerName, o.maxFeatures),
   title |-> IF title.type = "string" THEN title ELSE Absent]

\* featureTypes.map(...) from index i on: the first layer name that cannot
\* be determined throws
RECURSIVE MapEntries(_, _, _)
MapEntries(o, list, i) ==
  IF i > Len(list) THEN [ok |-> TRUE, entries |-> <<>>, error |-> ""]
  ELSE LET n == extractLayerName(list[i])
       IN IF ~n.ok THEN [ok |-> FALSE, entries |-> <<>>, error |-> n.error]
          ELSE LET rest == MapEntries(o, list, i + 1)
               IN IF ~rest.ok THEN rest
                  ELSE [rest EXCEPT !.entries = <<Entry(o, n.name, list[i].title)>> \o @]

\* getPublishedShapeWfsUrls, given what the fetch gave
getPublishedShapeWfsUrls(o, r) ==
  LET f == fetchFeatureTypes(r)
  IN IF ~f.ok THEN [ok |-> FALSE, entries |-> <<>>, error |-> f.error]
     ELSE MapEntries(o, f.list, 1)

-----------------------------------------------------------------------------
(* The listing utility: main *)

\* the variables of the batch publisher, which the listing utility leaves alone
batchVars == <<pc, options, exitCode, shapefiles, idx, componentPaths, zipPath, tempDir,
               bundles, inflight, hist, said, pending, tempOps>>

NoListOptions == ListDefaultOptions([GEOSERVER_URL |-> "", GEOSERVER_WORKSPACE |-> "",
                                  GEOSERVER_USER |-> "", GEOSERVER_PASSWORD |-> ""])

NoListResponse == [threw |-> FALSE, status |-> 0, payload |-> NoPayload]

\* the listing utility is started instead of the batch publisher
InitList ==
  /\ argv \in ListArgvPool
  /\ env \in EnvPool
  /\ tree = [root |-> <<>>, sub |-> <<>>]
  /\ dirAccessible = TRUE
  /\ pc = "off"
  /\ options = DefaultOptions(env)
  /\ exitCode = 0
  /\ shapefiles = <<>>
  /\ idx = 0
  /\ componentPaths = <<>>
  /\ zipPath = 0
  /\ tempDir = "none"
  /\ bundles = {}
  /\ inflight = "none"
  /\ hist = <<>>
  /\ said = ""
  /\ pending = 0
  /\ tempOps = [creates |-> 0, removes |-> 0]
  /\ lst = [pc |-> "parseArgs", options |-> NoListOptions, response |-> NoListResponse,
            out |-> <<>>, exitCode |-> 0, error |-> "", rejected |-> FALSE]

\* JSON.stringify(value, null, 2) when pretty, JSON.stringify(value) otherwise
Stringify(value, pretty) == [json |-> value, indent |-> IF pretty THEN 2 ELSE 0]

\* the names bound where the catch block of main runs: its parameter and its
\* own constant; options is a constant of the try block
CatchScope == {"error", "errorResult"}

\* the catch block of main, entered with error.message: reading options,
\* which is not bound there, throws a ReferenceError out of main before
\* anything is printed and before process.exitCode is assigned
Catch(l, message) ==
  LET errorResult == [success |-> FALSE, error |-> message, data |-> "null"]
  IN IF "options" \in CatchScope
     THEN [l EXCEPT !.pc = "done", !.error = message,
                    !.out = Append(@, Stringify(errorResult, l.options.pretty)),
                    !.exitCode = 1]
     ELSE [l EXCEPT !.pc = "done", !.error = message, !.rejected = TRUE]

\* the try block of main after getPublishedShapeWfsUrls returned entries
Report(l, entries) ==
  LET o == l.options
      result == IF Len(entries) = 0
                THEN [success |-> TRUE, message |-> "has no published feature types",
                      data |-> <<>>]
                ELSE [success |-> TRUE, count |-> Len(entries),
                      message |-> "Found published feature type(s)", data |-> entries]
  IN [l EXCEPT !.pc = "done", !.out = Append(@, Stringify(result, o.pretty))]

\* const options = parseArgs(process.argv.slice(2))
ListParseArgs ==
  /\ lst.pc = "parseArgs"
  /\ LET r == listParseArgs(argv, env)
     IN lst' = IF r.ok THEN [lst EXCEPT !.pc = "fetch", !.options = r.options]
               ELSE Catch(lst, r.error)
  /\ UNCHANGED <<inputs, batchVars>>

\* getPublishedShapeWfsUrls up to the fetch of fetchFeatureTypes
ListFetchRequest ==
  /\ lst.pc = "fetch"
  /\ lst' = [lst EXCEPT !.pc = "fetchWait"]
  /\ UNCHANGED <<inputs, batchVars>>

\* the response of the listing request, up to the end of main
ListFetchResponse ==
  /\ lst.pc = "fetchWait"
  /\ \E r \in ListResponses :
       LET got == getPublishedShapeWfsUrls(lst.options, r)
           seen == [lst EXCEPT !.response = r]
       IN lst' = IF got.ok THEN Report(seen, got.entries) ELSE Catch(seen, got.error)
  /\ UNCHANGED <<inputs, batchVars>>

NextList ==
  \/ ListParseArgs
  \/ ListFetchRequest
  \/ ListFetchResponse

SpecList == InitList /\ [][NextList]_vars

\* the exit status of the process: a rejection of main that nothing handles
\* ends the process with status 1, otherwise process.exitCode is the status
ExitStatus(l) == IF l.rejected THEN 1 ELSE l.exitCode

-----------------------------------------------------------------------------
(* The listing utility: results *)

\* the listing utility has ended
ListEnded == lst.pc = "done"

\* the message of the error that ended the run, "" when none did
FailureMessage ==
  LET parsed == listParseArgs(argv, env)
  IN IF ~parsed.ok THEN parsed.error
     ELSE IF ListEnded THEN getPublishedShapeWfsUrls(parsed.options, lst.response).error
     ELSE ""

\* C18: in the listing utility a 404 answer to the feature-type listing is an
\* empty list: the run prints one result with success true and no entries,
\* and does not end with a failing exit code
C18_NotFoundIsEmptySuccess ==
  (ListEnded /\ ~lst.response.threw /\ lst.response.status = 404) =>
     /\ Len(lst.out) = 1
     /\ lst.out[1].json.success = TRUE
     /\ lst.out[1].json.data = <<>>
     /\ lst.out[1].indent = (IF lst.options.pretty THEN 2 ELSE 0)
     /\ ExitStatus(lst) = 0
     /\ lst.error = ""

\* a run with --pretty got a 404 and has ended
C18_Witness ==
  /\ ListEnded
  /\ ~lst.response.threw
  /\ lst.response.status = 404
  /\ lst.options.pretty
  /\ Len(lst.out) = 1

\* C20: every failure of the listing utility's main (invalid or missing
\* arguments, a listing response that is neither 2xx nor 404, a layer name
\* that cannot be determined) ends with one JSON result holding success
\* false and the error's message, and with exit code 1
C20_FailureIsReportedAsJson ==
  (ListEnded /\ FailureMessage # "") =>
     /\ Len(lst.out) = 1
     /\ lst.out[1].json.success = FALSE
     /\ lst.out[1].json.error = FailureMessage
     /\ ExitStatus(lst) = 1

====
